---- MODULE Spec2Model ----
(***************************************************************************)
(* Sentinel-Ai: document ingestion, PII masking and erasure.               *)
(*                                                                         *)
(* Texts are sequences of one-character strings.  The masker              *)
(* (PIIService.detect_pii), the chunker (DocumentService._chunk_text), the *)
(* ingestion pipeline (DocumentService.process_document behind the upload  *)
(* endpoint), the erasure path (DocumentService.delete_document), the      *)
(* dashboard's documents table and the docs.py command line are modelled   *)
(* from the source.                                                        *)
(***************************************************************************)
EXTENDS Integers, Sequences, FiniteSets, TLC

(***************************************************************************)
(* Characters and character classes of Python's re module (ASCII part).    *)
(***************************************************************************)
Digits == {"0", "1", "2", "3", "4", "5", "6", "7", "8", "9"}

Lower == {"a", "b", "c", "d", "e", "f", "g", "h", "i", "j", "k", "l", "m",
          "n", "o", "p", "q", "r", "s", "t", "u", "v", "w", "x", "y", "z"}

Upper == {"A", "B", "C", "D", "E", "F", "G", "H", "I", "J", "K", "L", "M",
          "N", "O", "P", "Q", "R", "S", "T", "U", "V", "W", "X", "Y", "Z"}

\* [A-Z] under re.IGNORECASE
Letters == Lower \cup Upper

\* \w
WordChars == Letters \cup Digits \cup {"_"}

\* \s ; also the separators of str.split()
Whitespace == {" ", "\t", "\n", "\r", "\f"}

Min(a, b) == IF a < b THEN a ELSE b

Max(a, b) == IF a > b THEN a ELSE b

\* Python slice s[:n]  (n >= 0, clamped to the length)
SliceTo(s, n) == SubSeq(s, 1, Min(n, Len(s)))

\* Python slice s[n:]  (n >= 0, clamped to the length)
SliceFrom(s, n) == SubSeq(s, Min(n, Len(s)) + 1, Len(s))

\* Python slice s[a:b]
Slice(s, a, b) == SubSeq(s, Min(a, Len(s)) + 1, Min(b, Len(s)))

(***************************************************************************)
(* A backtracking matcher for the regular expressions of the pattern      *)
(* table.  Offsets are 0-based as in Python.  Ends(r, s, i) is the list    *)
(* of end offsets of the matches of r that start at offset i, in the       *)
(* order in which the backtracking engine tries them (greedy first), so    *)
(* that its head is the match re.finditer reports.                         *)
(***************************************************************************)
Cls(S) == [k |-> "cls", s |-> S]

Lit(c) == Cls({c})

Bnd == [k |-> "b"]

Cat(xs) == [k |-> "cat", xs |-> xs]

Alt(xs) == [k |-> "alt", xs |-> xs]

Rep(x, lo, hi) == [k |-> "rep", x |-> x, lo |-> lo, hi |-> hi]

\* upper limit standing for an unbounded repeat; above every text length used
Unbounded == 99

IsWordAt(s, i) == i >= 0 /\ i < Len(s) /\ s[i + 1] \in WordChars

\* \b at offset i
AtBoundary(s, i) == IsWordAt(s, i - 1) # IsWordAt(s, i)

RECURSIVE Ends(_, _, _)
RECURSIVE CatEnds(_, _, _, _)
RECURSIVE CatOver(_, _, _, _)
RECURSIVE AltEnds(_, _, _, _)
RECURSIVE RepEnds(_, _, _, _, _)
RECURSIVE RepOver(_, _, _, _, _)

Ends(r, s, i) ==
    CASE r.k = "cls" -> IF i < Len(s) /\ s[i + 1] \in r.s THEN <<i + 1>> ELSE <<>>
      [] r.k = "b"   -> IF AtBoundary(s, i) THEN <<i>> ELSE <<>>
      [] r.k = "cat" -> CatEnds(r.xs, 1, s, i)
      [] r.k = "alt" -> AltEnds(r.xs, 1, s, i)
      [] r.k = "rep" -> RepEnds(r.x, r.lo, r.hi, s, i)

\* the parts xs[n..] matched one after the other from offset i
CatEnds(xs, n, s, i) ==
    IF n > Len(xs) THEN <<i>>
    ELSE CatOver(Ends(xs[n], s, i), xs, n + 1, s)

CatOver(es, xs, n, s) ==
    IF es = <<>> THEN <<>>
    ELSE CatEnds(xs, n, s, Head(es)) \o CatOver(Tail(es), xs, n, s)

\* the alternatives xs[n..] tried from left to right
AltEnds(xs, n, s, i) ==
    IF n > Len(xs) THEN <<>>
    ELSE Ends(xs[n], s, i) \o AltEnds(xs, n + 1, s, i)

\* greedy x{lo,hi}: one more x first, stopping here last
RepEnds(x, lo, hi, s, i) ==
    IF hi = 0 THEN <<i>>
    ELSE RepOver(Ends(x, s, i), x, lo, hi, s)
         \o (IF lo <= 0 THEN <<i>> ELSE <<>>)

RepOver(es, x, lo, hi, s) ==
    IF es = <<>> THEN <<>>
    ELSE RepEnds(x, lo - 1, hi - 1, s, Head(es)) \o RepOver(Tail(es), x, lo, hi, s)

\* re.finditer(pattern, text): the non-overlapping matches from left to
\* right as <<start, end>> pairs, scanning from offset pos
RECURSIVE finditer(_, _, _)
finditer(r, s, pos) ==
    IF pos > Len(s) THEN <<>>
    ELSE LET es == Ends(r, s, pos)
         IN  IF es = <<>> THEN finditer(r, s, pos + 1)
             ELSE <<<<pos, Head(es)>>>>
                  \o finditer(r, s, IF Head(es) = pos THEN pos + 1 ELSE Head(es))

(***************************************************************************)
(* PIIService: pattern table, mask table, detect_pii.                      *)
(***************************************************************************)
D == Cls(Digits)

L == Cls(Letters)

AlNum == Cls(Letters \cup Digits)

OptSpace == Rep(Cls(Whitespace), 0, 1)

OptSep == Rep(Cls(Whitespace \cup {"-"}), 0, 1)

\* PATTERNS, in dictionary order; every class is already case-folded
PATTERNS == <<
    [type |-> "email",
     re |-> Cat(<<Bnd,
                  Rep(Cls(Letters \cup Digits \cup {".", "_", "%", "+", "-"}), 1, Unbounded),
                  Lit("@"),
                  Rep(Cls(Letters \cup Digits \cup {".", "-"}), 1, Unbounded),
                  Lit("."),
                  Rep(Cls(Letters \cup {"|"}), 2, Unbounded),
                  Bnd>>)],
    [type |-> "phone_de",
     re |-> Cat(<<Bnd,
                  Alt(<<Cat(<<Lit("+"), Lit("4"), Lit("9")>>),
                        Cat(<<Lit("0"), Lit("0"), Lit("4"), Lit("9")>>),
                        Lit("0")>>),
                  OptSep, Rep(D, 2, 4),
                  OptSep, Rep(D, 3, Unbounded),
                  OptSep, Rep(D, 2, Unbounded),
                  Bnd>>)],
    [type |-> "iban",
     re |-> Cat(<<Bnd, Rep(L, 2, 2), Rep(D, 2, 2), OptSpace,
                  Rep(Cat(<<Rep(D, 4, 4), OptSpace>>), 4, 7),
                  Rep(D, 0, 2),
                  Bnd>>)],
    [type |-> "bic",
     re |-> Cat(<<Bnd, Rep(L, 4, 4), Rep(L, 2, 2), Rep(AlNum, 2, 2),
                  Rep(Rep(AlNum, 3, 3), 0, 1),
                  Bnd>>)],
    [type |-> "plz_de",
     re |-> Cat(<<Bnd, Rep(D, 5, 5), Bnd>>)],
    [type |-> "date_de",
     re |-> Cat(<<Bnd, Rep(D, 1, 2), Cls({".", "/"}), Rep(D, 1, 2), Cls({".", "/"}),
                  Rep(D, 2, 4), Bnd>>)],
    [type |-> "steuer_id",
     re |-> Cat(<<Bnd, Rep(D, 2, 2), OptSpace, Rep(D, 3, 3), OptSpace,
                  Rep(D, 3, 3), OptSpace, Rep(D, 3, 3), Bnd>>)],
    [type |-> "sozialversicherung",
     re |-> Cat(<<Bnd, Rep(D, 2, 2), OptSpace, Rep(D, 6, 6), OptSpace,
                  L, OptSpace, Rep(D, 3, 3), Bnd>>)],
    [type |-> "kreditkarte",
     re |-> Cat(<<Bnd, Rep(Cat(<<Rep(D, 4, 4), OptSep>>), 3, 3), Rep(D, 4, 4), Bnd>>)],
    [type |-> "ip_address",
     re |-> Cat(<<Bnd, Rep(Cat(<<Rep(D, 1, 3), Lit(".")>>), 3, 3), Rep(D, 1, 3), Bnd>>)]
  >>

REDACTED == <<"[", "R", "E", "D", "A", "C", "T", "E", "D", "]">>

\* MASK_PATTERNS.get(key, "[REDACTED]")
MASK_PATTERNS(key) ==
    CASE key = "email"    -> <<"[", "E", "M", "A", "I", "L", "]">>
      [] key = "phone_de" -> <<"[", "T", "E", "L", "E", "F", "O", "N", "]">>
      [] key = "iban"     -> <<"[", "I", "B", "A", "N", "]">>
      [] key = "bic"      -> <<"[", "B", "I", "C", "]">>
      [] key = "plz_de"   -> <<"[", "P", "L", "Z", "]">>
      [] key = "date_de"  -> <<"[", "D", "A", "T", "U", "M", "]">>
      [] key = "steuer_id" -> <<"[", "S", "T", "E", "U", "E", "R", "-", "I", "D", "]">>
      [] key = "sozialversicherung" ->
             <<"[", "S", "O", "Z", "V", "E", "R", "S", "-", "N", "R", "]">>
      [] key = "kreditkarte" ->
             <<"[", "K", "R", "E", "D", "I", "T", "K", "A", "R", "T", "E", "]">>
      [] key = "ip_address" ->
             <<"[", "I", "P", "-", "A", "D", "R", "E", "S", "S", "E", "]">>
      [] key = "PERSON"   -> <<"[", "P", "E", "R", "S", "O", "N", "]">>
      [] key = "ORG"      ->
             <<"[", "O", "R", "G", "A", "N", "I", "S", "A", "T", "I", "O", "N", "]">>
      [] key = "LOC"      -> <<"[", "O", "R", "T", "]">>
      [] key = "GPE"      -> <<"[", "O", "R", "T", "]">>
      [] OTHER            -> REDACTED

PIIMatch(type, value, start, end, masked_value) ==
    [type |-> type, value |-> value, start |-> start, end |-> end,
     masked_value |-> masked_value]

\* the matches of one pattern, as PIIMatch records
RECURSIVE SpansToMatches(_, _, _)
SpansToMatches(type, text, spans) ==
    IF spans = <<>> THEN <<>>
    ELSE LET sp == Head(spans)
         IN  <<PIIMatch(type, Slice(text, sp[1], sp[2]), sp[1], sp[2],
                        MASK_PATTERNS(type))>>
             \o SpansToMatches(type, text, Tail(spans))

\* step 1 of detect_pii: every pattern of the table over the whole text
RECURSIVE RegexMatches(_, _)
RegexMatches(text, n) ==
    IF n > Len(PATTERNS) THEN <<>>
    ELSE SpansToMatches(PATTERNS[n].type, text, finditer(PATTERNS[n].re, text, 0))
         \o RegexMatches(text, n + 1)

\* step 2 of detect_pii: the entities of doc.ents with an accepted label;
\* an entity is [label_, start_char, end_char]
RECURSIVE EntityMatches(_, _)
EntityMatches(text, ents) ==
    IF ents = <<>> THEN <<>>
    ELSE LET ent == Head(ents)
         IN  (IF ent.label_ \in {"PER", "PERSON", "ORG", "LOC", "GPE"}
              THEN <<PIIMatch(ent.label_, Slice(text, ent.start_char, ent.end_char),
                              ent.start_char, ent.end_char, MASK_PATTERNS(ent.label_))>>
              ELSE <<>>)
             \o EntityMatches(text, Tail(ents))

\* the slip of sorting without reverse=True
RECURSIVE InsertByStartAsc(_, _)
InsertByStartAsc(m, sorted) ==
    IF sorted = <<>> THEN <<m>>
    ELSE IF Head(sorted).start <= m.start
         THEN <<Head(sorted)>> \o InsertByStartAsc(m, Tail(sorted))
         ELSE <<m>> \o sorted

\* sorted(matches, key=lambda m: m.start, reverse=True): stable, so matches
\* with the same start keep their detection order
RECURSIVE InsertByStartDesc(_, _)
InsertByStartDesc(m, sorted) ==
    IF sorted = <<>> THEN <<m>>
    ELSE IF Head(sorted).start >= m.start
         THEN <<Head(sorted)>> \o InsertByStartDesc(m, Tail(sorted))
         ELSE <<m>> \o sorted

RECURSIVE SortByStartDesc(_, _)
SortByStartDesc(matches, acc) ==
    IF matches = <<>> THEN acc
    ELSE SortByStartDesc(Tail(matches), InsertByStartDesc(Head(matches), acc))

\* step 3 of detect_pii: the walk over sorted_matches with replaced_spans
RECURSIVE ApplyMasking(_, _, _)
ApplyMasking(masked_text, sorted_matches, replaced_spans) ==
    IF sorted_matches = <<>> THEN masked_text
    ELSE LET match == Head(sorted_matches)
             span_key == <<match.start, match.end>>
         IN  IF span_key \notin replaced_spans
             THEN ApplyMasking(SliceTo(masked_text, match.start)
                                 \o match.masked_value
                                 \o SliceFrom(masked_text, match.end),
                               Tail(sorted_matches),
                               replaced_spans \cup {span_key})
             ELSE ApplyMasking(masked_text, Tail(sorted_matches), replaced_spans)

PIIResult(original_text, masked_text, pii_detected, matches) ==
    [original_text |-> original_text, masked_text |-> masked_text,
     pii_detected |-> pii_detected, matches |-> matches]

\* detect_pii with the spans the entity recognizer returned for the text
\* (nlp = FALSE: self.nlp is None)
detect_pii_ents(enabled, nlp, ents, text, mask) ==
    IF ~enabled THEN PIIResult(text, text, FALSE, <<>>)
    ELSE LET matches == RegexMatches(text, 1)
                        \o (IF nlp THEN EntityMatches(text, ents) ELSE <<>>)
             masked_text == IF mask /\ matches # <<>>
                            THEN ApplyMasking(text, SortByStartDesc(matches, <<>>), {})
                            ELSE text
         IN  PIIResult(text, masked_text, Len(matches) > 0, matches)

(***************************************************************************)
(* DocumentService._chunk_text.                                            *)
(***************************************************************************)
\* str.split(): the maximal runs of non-whitespace characters
RECURSIVE SplitFrom(_, _, _)
SplitFrom(s, i, cur) ==
    LET flush == IF cur = <<>> THEN <<>> ELSE <<cur>>
    IN  IF i > Len(s) THEN flush
        ELSE IF s[i] \in Whitespace THEN flush \o SplitFrom(s, i + 1, <<>>)
        ELSE SplitFrom(s, i + 1, Append(cur, s[i]))

split(s) == SplitFrom(s, 1, <<>>)

\* " ".join(parts)
RECURSIVE join(_)
join(parts) ==
    IF parts = <<>> THEN <<>>
    ELSE IF Len(parts) = 1 THEN parts[1]
    ELSE parts[1] \o <<" ">> \o join(Tail(parts))

\* str.strip()
RECURSIVE strip(_)
strip(s) ==
    IF s = <<>> THEN s
    ELSE IF s[1] \in Whitespace THEN strip(Tail(s))
    ELSE IF s[Len(s)] \in Whitespace THEN strip(SubSeq(s, 1, Len(s) - 1))
    ELSE s

\* text.replace(". ", ".\n").replace("? ", "?\n").replace("! ", "!\n").split("\n")
\* on whitespace-normalized text: cut after a terminal mark followed by a space
RECURSIVE SentencesFrom(_, _, _)
SentencesFrom(s, i, cur) ==
    IF i > Len(s) THEN <<cur>>
    ELSE IF s[i] \in {".", "?", "!"} /\ i < Len(s) /\ s[i + 1] = " "
         THEN <<Append(cur, s[i])>> \o SentencesFrom(s, i + 2, <<>>)
    ELSE IF s[i] = "\n" THEN <<cur>> \o SentencesFrom(s, i + 1, <<>>)
    ELSE SentencesFrom(s, i + 1, Append(cur, s[i]))

\* the slip of testing overlap_len alone, without the length of the word
RECURSIVE OverlapWalk_unmeasured(_, _, _, _)
OverlapWalk_unmeasured(words, overlap_words, overlap_len, chunk_overlap) ==
    IF words = <<>> THEN [words |-> overlap_words, len |-> overlap_len]
    ELSE LET word == words[Len(words)]
         IN  IF overlap_len < chunk_overlap
             THEN OverlapWalk_unmeasured(SubSeq(words, 1, Len(words) - 1),
                                         <<word>> \o overlap_words,
                                         overlap_len + Len(word) + 1, chunk_overlap)
             ELSE [words |-> overlap_words, len |-> overlap_len]

\* the backward walk over the words of the closed chunk: [words, len]
RECURSIVE OverlapWalk(_, _, _, _)
OverlapWalk(words, overlap_words, overlap_len, chunk_overlap) ==
    IF words = <<>> THEN [words |-> overlap_words, len |-> overlap_len]
    ELSE LET word == words[Len(words)]
         IN  IF overlap_len + Len(word) < chunk_overlap
             THEN OverlapWalk(SubSeq(words, 1, Len(words) - 1),
                              <<word>> \o overlap_words,
                              overlap_len + Len(word) + 1, chunk_overlap)
             ELSE [words |-> overlap_words, len |-> overlap_len]

\* the loop over the sentences: [chunks, current_chunk] when it ends
RECURSIVE ChunkLoop(_, _, _, _, _, _)
ChunkLoop(sentences, chunks, current_chunk, current_length, chunk_size, chunk_overlap) ==
    IF sentences = <<>>
    THEN [chunks |-> chunks, current_chunk |-> current_chunk]
    ELSE LET sentence == strip(Head(sentences))
             sentence_length == Len(sentence)
         IN  IF sentence = <<>>
             THEN ChunkLoop(Tail(sentences), chunks, current_chunk, current_length,
                            chunk_size, chunk_overlap)
             ELSE IF current_length + sentence_length > chunk_size /\ current_chunk # <<>>
             THEN LET overlap_text == join(current_chunk)
                      walk == IF Len(overlap_text) > chunk_overlap
                              THEN OverlapWalk(split(overlap_text), <<>>, 0, chunk_overlap)
                              ELSE [words |-> <<>>, len |-> 0]
                  IN  ChunkLoop(Tail(sentences), Append(chunks, overlap_text),
                                Append(walk.words, sentence),
                                walk.len + sentence_length + 1,
                                chunk_size, chunk_overlap)
             ELSE ChunkLoop(Tail(sentences), chunks,
                            Append(current_chunk, sentence),
                            current_length + sentence_length + 1,
                            chunk_size, chunk_overlap)

\* the slip of returning without appending the chunk still being filled
chunk_text_unflushed(text, chunk_size, chunk_overlap) ==
    ChunkLoop(SentencesFrom(join(split(text)), 1, <<>>), <<>>, <<>>, 0,
              chunk_size, chunk_overlap).chunks

\* _chunk_text: normalize, split into sentences, loop, flush the last chunk
chunk_text(text, chunk_size, chunk_overlap) ==
    LET loop == ChunkLoop(SentencesFrom(join(split(text)), 1, <<>>), <<>>, <<>>, 0,
                          chunk_size, chunk_overlap)
    IN  IF loop.current_chunk # <<>>
        THEN Append(loop.chunks, join(loop.current_chunk))
        ELSE loop.chunks

(***************************************************************************)
(* The entity recognizer (spaCy) is an external capability.  The stand-in  *)
(* reports every whole-word occurrence of a name of a fixed lexicon with   *)
(* the label the German models use for it.                                 *)
(***************************************************************************)
Lexicon == << [word |-> <<"M", "a", "x">>, label_ |-> "PER"],
              [word |-> <<"B", "o", "n", "n">>, label_ |-> "LOC"],
              [word |-> <<"H", "e", "u", "t", "e">>, label_ |-> "MISC"] >>

RECURSIVE FindWord(_, _, _, _)
FindWord(text, word, label, pos) ==
    IF pos + Len(word) > Len(text) THEN <<>>
    ELSE IF Slice(text, pos, pos + Len(word)) = word
            /\ ~IsWordAt(text, pos - 1) /\ ~IsWordAt(text, pos + Len(word))
         THEN <<[label_ |-> label, start_char |-> pos, end_char |-> pos + Len(word)]>>
              \o FindWord(text, word, label, pos + Len(word))
         ELSE FindWord(text, word, label, pos + 1)

RECURSIVE doc_ents(_, _)
doc_ents(text, n) ==
    IF n > Len(Lexicon) THEN <<>>
    ELSE FindWord(text, Lexicon[n].word, Lexicon[n].label_, 0) \o doc_ents(text, n + 1)

\* PIIService.detect_pii(text, mask) of the service self = [enabled, nlp]
detect_pii(self, text, mask) ==
    detect_pii_ents(self.enabled, self.nlp,
                    IF self.nlp THEN doc_ents(text, 1) ELSE <<>>, text, mask)

(***************************************************************************)
(* The running system: backend (upload and delete endpoints over           *)
(* DocumentService), vector index, documents.json, the dashboard's         *)
(* documents table and the docs.py command line.                           *)
(***************************************************************************)
\* number of process_document calls explored; document ids are 1..MaxUploads
MaxUploads == 1

\* DocumentService(chunk_size=..., chunk_overlap=...), scaled to the sample texts
chunk_size == 16

chunk_overlap == 6

\* docs.py chunk_text defaults
CLI_CHUNK_SIZE == 500

CLI_OVERLAP == 50

DocIds == 1..MaxUploads

\* extraction results: None or "" (both falsy), blank text, one chunk with a
\* postal code, two chunks of which the first holds a name and an address
NoText == <<>>

TBlank == <<" ">>

TOne == <<"H", "i", " ", "1", "2", "3", "4", "5", ".">>

TTwo == <<"M", "a", "x", " ", "a", "@", "b", ".", "d", "e", ".", " ",
          "H", "a", "l", "l", "o", " ", "d", "u", " ", "d", "a", ".">>

\* uploaded files: the extension and what extraction yields for the content
Files == { [ext |-> ".exe", text |-> TOne],
           [ext |-> ".pdf", text |-> NoText],
           [ext |-> ".txt", text |-> TBlank],
           [ext |-> ".txt", text |-> TOne],
           [ext |-> ".txt", text |-> TTwo] }

allowed_types == {".pdf", ".docx", ".doc", ".txt", ".md"}

Clients == {"api", "dashboard"}

\* the file given to docs.py add; its stem stands where the document ids
\* stand in the entry ids and is no document id
CliFile == [stem |-> 0, text |-> TOne]

VARIABLES
    pii_service,        \* PIIService: [enabled, nlp]
    collection,         \* the vector index: set of entries
    documents_metadata, \* DocumentService.documents_metadata (in memory)
    metadata_file,      \* documents.json: [ok, data]; ~ok: unreadable
    db_documents,       \* ids of the rows of the dashboard's documents table
    ing,                \* the upload request in flight or last answered
    er,                 \* the delete request in flight or last answered
    next_id,            \* ordinal of the next uuid4()
    interrupted,        \* id whose erase a crash cut off after the purge, or 0
    pii,                \* a detect_pii call followed statement by statement
    ct,                 \* a _chunk_text call on a DocumentService of its own
    wt                  \* the inbox watcher: its directories and its handler

vars == <<pii_service, collection, documents_metadata, metadata_file,
          db_documents, ing, er, next_id, interrupted, pii, ct, wt>>

\* the state of the backend, the dashboard and the command line
system_vars == <<collection, documents_metadata, metadata_file, db_documents,
                 ing, er, next_id, interrupted>>

EmptyMeta == [d \in {} |-> 0]

\* _load_metadata: {} when the file is missing or unreadable
load_metadata(file) == IF file.ok THEN file.data ELSE EmptyMeta

\* _save_metadata: the file is rewritten; a failure is logged and swallowed,
\* leaving the old file (open failed) or an unreadable one (write failed)
SaveOutcomes == {"saved", "unchanged", "truncated"}

save_metadata(file, metadata, outcome) ==
    CASE outcome = "saved"     -> [ok |-> TRUE, data |-> metadata]
      [] outcome = "unchanged" -> file
      [] outcome = "truncated" -> [ok |-> FALSE, data |-> EmptyMeta]

Put(f, k, v) == [x \in DOMAIN f \cup {k} |-> IF x = k THEN v ELSE f[x]]

Del(f, k) == [x \in DOMAIN f \ {k} |-> f[x]]

IdleIng == [pc |-> "idle", client |-> "api", file |-> [ext |-> "", text |-> NoText],
            id |-> 0, text |-> NoText, chunks |-> <<>>, masked_chunks |-> <<>>,
            pii_detected |-> FALSE, embed_calls |-> <<>>, index_calls |-> 0,
            failed |-> "none", status |-> 0, recorded |-> FALSE, stages |-> <<>>]

IdlePii == [pc |-> "idle", text |-> <<>>, mask |-> TRUE, ents |-> <<>>,
            recognizer |-> "ok", matches |-> <<>>, masked_text |-> <<>>,
            sorted_matches |-> <<>>, replaced_spans |-> {}, intact |-> TRUE,
            pass |-> 0, first |-> <<>>, raised |-> FALSE, spliced |-> <<>>,
            origin |-> <<>>]

IdleCt == [pc |-> "idle", text |-> <<>>, chunk_size |-> 0, chunk_overlap |-> 0,
           sentences |-> <<>>, chunks |-> <<>>, current_chunk |-> <<>>,
           current_length |-> 0, carried |-> <<>>]

\* the watcher before any file arrived: empty inbox, processed/ and error/
\* (_ensure_dirs), no handler running
IdleWt == [pc |-> "idle", filepath |-> <<>>, inbox |-> {}, processed |-> {},
           error |-> {}, logs |-> {}, response |-> 0, error_msg |-> "",
           raised |-> FALSE, place |-> "none", log_written |-> FALSE,
           arrivals |-> 0]

IdleEr == [pc |-> "idle", id |-> 0, had_chunks |-> FALSE, had_record |-> FALSE,
           index |-> "none", result |-> FALSE, status |-> 0, after_interrupt |-> FALSE,
           prev_true |-> FALSE, pending |-> 0, overlaps |-> FALSE]

\* collection.get(where={"document_id": document_id})
ChunksOf(coll, document_id) == {e \in coll : e.document_id = document_id}

\* the handlers of the event loop run to their next suspension point; only
\* the embedding calls of process_document suspend
IngSuspended == ing.pc \in {"idle", "done"}
                \/ (ing.pc = "embed" /\ ing.masked_chunks # <<>>)

ErSuspended == er.pc \in {"idle", "done"}

Init ==
    /\ pii_service \in {[enabled |-> TRUE, nlp |-> n] : n \in BOOLEAN}
    /\ collection = {}
    /\ documents_metadata = EmptyMeta
    /\ metadata_file = [ok |-> TRUE, data |-> EmptyMeta]
    /\ db_documents = {}
    /\ ing = IdleIng
    /\ er = IdleEr
    /\ next_id = 1
    /\ interrupted = 0
    /\ pii = IdlePii
    /\ ct = IdleCt
    /\ wt = IdleWt

(***************************************************************************)
(* POST /documents/upload and DocumentService.process_document.            *)
(***************************************************************************)
\* the slip of recording the error without leaving the handler
Fail_and_go_on(r, stage, status) == [r EXCEPT !.failed = stage, !.status = status]

\* the request ends with an HTTP error raised at the given stage
Fail(r, stage, status) == [r EXCEPT !.pc = "done", !.failed = stage, !.status = status]

\* upload_document up to the first statement of process_document
upload_document(file, client) ==
    /\ ing.pc \in {"idle", "done"}
    /\ ErSuspended
    /\ IF file.ext \notin allowed_types
       THEN /\ ing' = Fail([IdleIng EXCEPT !.client = client, !.file = file], "type", 400)
            /\ UNCHANGED next_id
       ELSE /\ next_id <= MaxUploads
            /\ ing' = [IdleIng EXCEPT !.pc = "extract", !.client = client,
                                      !.file = file, !.id = next_id]
            /\ next_id' = next_id + 1
    /\ UNCHANGED <<pii, ct, wt, pii_service, collection, documents_metadata, metadata_file,
                   db_documents, er, interrupted>>

\* 1. Extract text from document
Extract ==
    /\ ing.pc = "extract"
    /\ ErSuspended
    /\ LET text == ing.file.text
       IN  IF text = <<>>
           THEN ing' = Fail([ing EXCEPT !.stages = Append(@, "extract")], "extract", 400)
           ELSE ing' = [ing EXCEPT !.pc = "chunk", !.text = text,
                                   !.stages = Append(@, "extract")]
    /\ UNCHANGED <<pii, ct, wt, pii_service, collection, documents_metadata, metadata_file,
                   db_documents, er, next_id, interrupted>>

\* 2. Split into chunks
Chunk ==
    /\ ing.pc = "chunk"
    /\ ErSuspended
    /\ ing' = [ing EXCEPT !.pc = "mask", !.stages = Append(@, "chunk"),
                          !.chunks = chunk_text(ing.text, chunk_size, chunk_overlap)]
    /\ UNCHANGED <<pii, ct, wt, pii_service, collection, documents_metadata, metadata_file,
                   db_documents, er, next_id, interrupted>>

\* masked_chunks of the loop "for chunk in chunks"
RECURSIVE MaskChunks(_, _)
MaskChunks(self, chunks) ==
    IF chunks = <<>> THEN <<>>
    ELSE <<detect_pii(self, Head(chunks), TRUE).masked_text>>
         \o MaskChunks(self, Tail(chunks))

\* pii_detected of the loop "for chunk in chunks"
AnyPII(self, chunks) ==
    \E i \in 1..Len(chunks) : detect_pii(self, chunks[i], TRUE).pii_detected

\* 3. PII detection and masking: the loop and the summary; a loaded
\* recognizer may raise on a chunk, which leaves process_document
Mask ==
    /\ ing.pc = "mask"
    /\ ErSuspended
    /\ \E recognizer \in {"ok", "raised"} :
         IF recognizer = "raised" /\ pii_service.nlp /\ ing.chunks # <<>>
         THEN ing' = Fail([ing EXCEPT !.stages = Append(@, "mask")], "mask", 500)
         ELSE ing' = [ing EXCEPT !.pc = "embed", !.stages = Append(@, "mask"),
                                 !.masked_chunks = MaskChunks(pii_service, ing.chunks),
                                 !.pii_detected = AnyPII(pii_service, ing.chunks)]
    /\ UNCHANGED <<pii, ct, wt, pii_service, collection, documents_metadata, metadata_file,
                   db_documents, er, next_id, interrupted>>

\* the slip of embedding the chunks instead of the masked chunks
EmbeddingTexts_unmasked(r) == r.chunks

\* the argument of generate_embeddings_batch in process_document
EmbeddingTexts(r) == r.masked_chunks

\* the slip of calling the embedding model a second time when a call failed
Embed_retried ==
    /\ ing.pc = "embed"
    /\ ErSuspended
    /\ LET texts == EmbeddingTexts(ing)
           n == Len(ing.embed_calls) + 1
           begun == [ing EXCEPT !.stages = IF n = 1 THEN Append(@, "embed") ELSE @]
       IN  \E ok \in BOOLEAN :
             IF texts = <<>>
             THEN ing' = [begun EXCEPT !.pc = "index"]
             ELSE IF ok
             THEN ing' = [begun EXCEPT !.embed_calls = Append(@, texts[n]),
                                       !.pc = IF n = Len(texts) THEN "index" ELSE "embed"]
             ELSE ing' = Fail([begun EXCEPT !.embed_calls =
                                               Append(Append(@, texts[n]), texts[n])],
                              "embed", 500)
    /\ UNCHANGED <<pii, ct, wt, pii_service, collection, documents_metadata, metadata_file,
                   db_documents, er, next_id, interrupted>>

\* 4. one generate_embedding call of generate_embeddings_batch: the next text
\* in order; the call returns a vector or raises RuntimeError
Embed ==
    /\ ing.pc = "embed"
    /\ ErSuspended
    /\ LET texts == EmbeddingTexts(ing)
           n == Len(ing.embed_calls) + 1
           begun == [ing EXCEPT !.stages = IF n = 1 THEN Append(@, "embed") ELSE @]
       IN  \E ok \in BOOLEAN :
             IF texts = <<>>
             THEN ing' = [begun EXCEPT !.pc = "index"]
             ELSE IF ok
             THEN ing' = [begun EXCEPT !.embed_calls = Append(@, texts[n]),
                                       !.pc = IF n = Len(texts) THEN "index" ELSE "embed"]
             ELSE ing' = Fail([begun EXCEPT !.embed_calls = Append(@, texts[n])],
                              "embed", 500)
    /\ UNCHANGED <<pii, ct, wt, pii_service, collection, documents_metadata, metadata_file,
                   db_documents, er, next_id, interrupted>>

\* f"{document_id}_chunk_{i}"
chunk_id(document_id, i) == <<document_id, "_chunk_", i>>

\* the slip of numbering the chunks from one
IndexEntries_from_one(r) ==
    { [id |-> chunk_id(r.id, i + 1), document_id |-> r.id, chunk_index |-> i + 1,
       total_chunks |-> Len(r.masked_chunks), pii_masked |-> r.pii_detected,
       document |-> r.masked_chunks[i + 1], embedding |-> r.embed_calls[i + 1],
       raw |-> r.chunks[i + 1]] : i \in 0..(Len(r.masked_chunks) - 1) }

\* the entries process_document hands to add_documents: the ids, the stored
\* text, the text whose vector is stored, the metadata; raw records the chunk
\* before masking
IndexEntries(r) ==
    { [id |-> chunk_id(r.id, i), document_id |-> r.id, chunk_index |-> i,
       total_chunks |-> Len(r.masked_chunks), pii_masked |-> r.pii_detected,
       document |-> r.masked_chunks[i + 1], embedding |-> r.embed_calls[i + 1],
       raw |-> r.chunks[i + 1]] : i \in 0..(Len(r.masked_chunks) - 1) }

\* the slip of an index that takes an empty batch as a batch of no entries
Upsert_accepts_empty ==
    /\ ing.pc = "index"
    /\ ErSuspended
    /\ \E ok \in BOOLEAN :
         IF ok
         THEN /\ collection' = collection \cup IndexEntries(ing)
              /\ ing' = [ing EXCEPT !.pc = "commit", !.index_calls = @ + 1,
                                    !.stages = Append(@, "index")]
         ELSE /\ ing' = Fail([ing EXCEPT !.index_calls = @ + 1,
                                         !.stages = Append(@, "index")], "index", 500)
              /\ UNCHANGED collection
    /\ UNCHANGED <<pii, ct, wt, pii_service, documents_metadata, metadata_file,
                   db_documents, er, next_id, interrupted>>

\* the slip of logging the exception of collection.add without re-raising it
Upsert_swallowed ==
    /\ ing.pc = "index"
    /\ ErSuspended
    /\ \E ok \in BOOLEAN :
         IF ok /\ ing.masked_chunks # <<>>
         THEN /\ collection' = collection \cup IndexEntries(ing)
              /\ ing' = [ing EXCEPT !.pc = "commit", !.index_calls = @ + 1,
                                    !.stages = Append(@, "index")]
         ELSE /\ ing' = [ing EXCEPT !.pc = "commit", !.index_calls = @ + 1,
                                    !.failed = "index", !.stages = Append(@, "index")]
              /\ UNCHANGED collection
    /\ UNCHANGED <<pii, ct, wt, pii_service, documents_metadata, metadata_file,
                   db_documents, er, next_id, interrupted>>

\* 5. Store in vector database: add_documents re-raises what collection.add
\* raises; Chroma rejects an empty batch with a ValueError, which the
\* endpoint answers with 400
Upsert ==
    /\ ing.pc = "index"
    /\ ErSuspended
    /\ \E ok \in BOOLEAN :
         IF ok /\ ing.masked_chunks # <<>>
         THEN /\ collection' = collection \cup IndexEntries(ing)
              /\ ing' = [ing EXCEPT !.pc = "commit", !.index_calls = @ + 1,
                                    !.stages = Append(@, "index")]
         ELSE /\ ing' = Fail([ing EXCEPT !.index_calls = @ + 1,
                                         !.stages = Append(@, "index")], "index",
                              IF ing.masked_chunks = <<>> THEN 400 ELSE 500)
              /\ UNCHANGED collection
    /\ UNCHANGED <<pii, ct, wt, pii_service, documents_metadata, metadata_file,
                   db_documents, er, next_id, interrupted>>

\* the Document record of step 6
DocumentRecord(r) ==
    [id |-> r.id, file_type |-> r.file.ext, chunk_count |-> Len(r.chunks),
     character_count |-> Len(r.text), pii_detected |-> r.pii_detected]

\* 6. Save document metadata: the dictionary entry, then _save_metadata()
Commit ==
    /\ ing.pc = "commit"
    /\ ErSuspended
    /\ documents_metadata' = Put(documents_metadata, ing.id, DocumentRecord(ing))
    /\ \E outcome \in SaveOutcomes :
         metadata_file' = save_metadata(metadata_file, documents_metadata', outcome)
    /\ ing' = [ing EXCEPT !.pc = "audit", !.stages = Append(@, "commit")]
    /\ UNCHANGED <<pii, ct, wt, pii_service, collection, db_documents, er, next_id, interrupted>>

\* 7. Audit log: AuditService.log inserts a row or raises what sqlite3 raises
Audit ==
    /\ ing.pc = "audit"
    /\ ErSuspended
    /\ \E ok \in BOOLEAN :
         ing' = IF ok THEN [ing EXCEPT !.pc = "respond"] ELSE Fail(ing, "audit", 500)
    /\ UNCHANGED <<pii, ct, wt, pii_service, collection, documents_metadata, metadata_file,
                   db_documents, er, next_id, interrupted>>

\* upload_document after process_document returned: its own audit entry,
\* then the DocumentResponse
Respond ==
    /\ ing.pc = "respond"
    /\ ErSuspended
    /\ \E ok \in BOOLEAN :
         ing' = IF ok THEN [ing EXCEPT !.pc = "done", !.status = 200]
                ELSE Fail(ing, "respond", 500)
    /\ UNCHANGED <<pii, ct, wt, pii_service, collection, documents_metadata, metadata_file,
                   db_documents, er, next_id, interrupted>>

(***************************************************************************)
(* DELETE /documents/{document_id} and DocumentService.delete_document.    *)
(***************************************************************************)
\* the membership test that opens delete_document
delete_document_begin(document_id) ==
    /\ er.pc \in {"idle", "done"}
    /\ IngSuspended
    /\ er.pending # 0 => document_id = er.pending
    /\ LET call == [IdleEr EXCEPT !.id = document_id,
                                  !.had_chunks = ChunksOf(collection, document_id) # {},
                                  !.had_record = document_id \in DOMAIN documents_metadata,
                                  !.after_interrupt = (interrupted = document_id),
                                  !.prev_true = (er.pc = "done" /\ er.id = document_id
                                                 /\ er.result),
                                  !.overlaps = (er.pending = document_id
                                                /\ er.id = document_id
                                                /\ er.had_record)]
       IN  IF document_id \notin DOMAIN documents_metadata
           THEN er' = [call EXCEPT !.pc = "done", !.result = FALSE, !.status = 404]
           ELSE er' = [call EXCEPT !.pc = "index"]
    /\ interrupted' = 0
    /\ UNCHANGED <<pii, ct, wt, pii_service, collection, documents_metadata, metadata_file,
                   db_documents, ing, next_id>>

\* a second DELETE request for a document arrives while the handler of one
\* runs; the handler has no suspension point (delete_by_document_id and
\* audit_service.log await nothing), so the event loop starts the second
\* handler when the first has returned
delete_document_requested(document_id) ==
    /\ er.pc \in {"index", "meta", "respond"}
    /\ er.pending = 0
    /\ er' = [er EXCEPT !.pending = document_id]
    /\ UNCHANGED <<pii, ct, wt, pii_service, collection, documents_metadata, metadata_file,
                   db_documents, ing, next_id, interrupted>>

\* the slip of filtering on a metadata key the entries do not carry: nothing
\* is found, nothing is deleted
delete_by_document_id_wrong_filter ==
    /\ er.pc = "index"
    /\ \E ok \in BOOLEAN :
         er' = [er EXCEPT !.pc = "meta", !.index = IF ok THEN "nothing" ELSE "raised"]
    /\ UNCHANGED <<pii, ct, wt, pii_service, collection, documents_metadata, metadata_file,
                   db_documents, ing, next_id, interrupted>>

\* VectorStoreService.delete_by_document_id: the chunks found by the
\* metadata filter are deleted; an exception is logged and answered False
delete_by_document_id ==
    /\ er.pc = "index"
    /\ LET ids == ChunksOf(collection, er.id)
       IN  \E ok \in BOOLEAN :
             IF ~ok
             THEN /\ er' = [er EXCEPT !.pc = "meta", !.index = "raised"]
                  /\ UNCHANGED collection
             ELSE IF ids # {}
             THEN /\ collection' = collection \ ids
                  /\ er' = [er EXCEPT !.pc = "meta", !.index = "deleted"]
             ELSE /\ er' = [er EXCEPT !.pc = "meta", !.index = "nothing"]
                  /\ UNCHANGED collection
    /\ UNCHANGED <<pii, ct, wt, pii_service, documents_metadata, metadata_file,
                   db_documents, ing, next_id, interrupted>>

\* the rest of delete_document (the answer of the index is not looked at):
\* del documents_metadata[document_id], _save_metadata(), return True
delete_document_metadata ==
    /\ er.pc = "meta"
    /\ documents_metadata' = Del(documents_metadata, er.id)
    /\ \E outcome \in SaveOutcomes :
         metadata_file' = save_metadata(metadata_file, documents_metadata', outcome)
    /\ er' = [er EXCEPT !.pc = "respond", !.result = TRUE]
    /\ UNCHANGED <<pii, ct, wt, pii_service, collection, db_documents, ing, next_id, interrupted>>

\* the endpoint after delete_document returned True: audit entry, answer
delete_respond ==
    /\ er.pc = "respond"
    /\ \E ok \in BOOLEAN :
         er' = [er EXCEPT !.pc = "done", !.status = IF ok THEN 200 ELSE 500]
    /\ UNCHANGED <<pii, ct, wt, pii_service, collection, documents_metadata, metadata_file,
                   db_documents, ing, next_id, interrupted>>

(***************************************************************************)
(* The dashboard (frontend/app.py over DatabaseService).                   *)
(***************************************************************************)
\* after a 200 answer to its upload the dashboard calls db.add_document,
\* which returns False when the INSERT fails
dashboard_add_document ==
    /\ ing.pc = "done" /\ ing.status = 200
    /\ ing.client = "dashboard" /\ ~ing.recorded
    /\ \E ok \in BOOLEAN :
         db_documents' = IF ok THEN db_documents \cup {ing.id} ELSE db_documents
    /\ ing' = [ing EXCEPT !.recorded = TRUE]
    /\ UNCHANGED <<pii, ct, wt, pii_service, collection, documents_metadata, metadata_file,
                   er, next_id, interrupted>>

\* the button "Loeschen (DSGVO)": db.delete_document(doc['id']) and an audit row
dashboard_delete(doc_id) ==
    /\ doc_id \in db_documents
    /\ \E ok \in BOOLEAN :
         db_documents' = IF ok THEN db_documents \ {doc_id} ELSE db_documents
    /\ UNCHANGED <<pii, ct, wt, pii_service, collection, documents_metadata, metadata_file,
                   ing, er, next_id, interrupted>>

(***************************************************************************)
(* docs.py add.                                                            *)
(***************************************************************************)
\* docs.py chunk_text: windows of chunk_size words every chunk_size - overlap
RECURSIVE CliChunks(_, _, _, _)
CliChunks(words, i, size, overlap) ==
    IF i >= Len(words) THEN <<>>
    ELSE LET chunk == join(Slice(words, i, i + size))
         IN  (IF strip(chunk) # <<>> THEN <<chunk>> ELSE <<>>)
             \o CliChunks(words, i + size - overlap, size, overlap)

cli_chunk_text(text, size, overlap) == CliChunks(split(text), 0, size, overlap)

\* cmd_add: each chunk is embedded and added as it is; an exception of
\* get_embedding or collection.add ends the command after k chunks
cmd_add ==
    /\ \A e \in collection : e.id[1] # CliFile.stem
    /\ CliFile.text # <<>>
    /\ LET chunks == cli_chunk_text(CliFile.text, CLI_CHUNK_SIZE, CLI_OVERLAP)
       IN  \E k \in 0..Len(chunks) :
             collection' = collection \cup
                 { [id |-> <<CliFile.stem, "_", i>>, document_id |-> 0, chunk_index |-> i,
                    total_chunks |-> 0, pii_masked |-> FALSE,
                    document |-> chunks[i + 1], embedding |-> chunks[i + 1],
                    raw |-> chunks[i + 1]] : i \in 0..(k - 1) }
    /\ UNCHANGED <<pii, ct, wt, pii_service, documents_metadata, metadata_file, db_documents,
                   ing, er, next_id, interrupted>>

(***************************************************************************)
(* The backend process stops at any point and is started again: requests   *)
(* in flight are gone, DocumentService.__init__ reloads documents.json.    *)
(***************************************************************************)
Restart ==
    /\ documents_metadata' = load_metadata(metadata_file)
    /\ ing' = IF ing.pc = "done" THEN ing ELSE IdleIng
    /\ er' = IdleEr
    /\ interrupted' = IF er.pc = "meta" /\ er.index # "raised" THEN er.id ELSE 0
    /\ UNCHANGED <<pii, ct, wt, pii_service, collection, metadata_file, db_documents, next_id>>

Next ==
    \/ \E file \in Files, client \in Clients : upload_document(file, client)
    \/ Extract
    \/ Chunk
    \/ Mask
    \/ Embed
    \/ Upsert
    \/ Commit
    \/ Audit
    \/ Respond
    \/ \E d \in DocIds : delete_document_begin(d)
    \/ \E d \in DocIds : delete_document_requested(d)
    \/ delete_by_document_id
    \/ delete_document_metadata
    \/ delete_respond
    \/ dashboard_add_document
    \/ \E d \in DocIds : dashboard_delete(d)
    \/ cmd_add
    \/ Restart

Spec == Init /\ [][Next]_vars

(***************************************************************************)
(* PIIService on its own: the constructor and one detect_pii call followed *)
(* statement by statement, then a second call on the text the first one    *)
(* returned.                                                               *)
(***************************************************************************)
\* PIIService.__init__: self.nlp is set when spaCy is importable, the service
\* is enabled and de_core_news_lg or the fallback de_core_news_sm loads
PIIService_init(SPACY_AVAILABLE, enabled, lg_loads, sm_loads) ==
    [enabled |-> enabled,
     nlp |-> SPACY_AVAILABLE /\ enabled /\ (lg_loads \/ sm_loads)]

\* texts given to detect_pii: the sample of the specification, a card
\* number, a date inside an address, a number repeated after a letter, a
\* postal code, a name and a place, plain words, nothing
TKontakt == <<"K", "o", "n", "t", "a", "k", "t", ":", " ", "m", "a", "x", "@",
              "f", "i", "r", "m", "a", ".", "d", "e", ",", " ", "T", "e", "l",
              ":", " ", "0", "3", "0", " ", "1", "2", "3", "4", "5", "6", "7",
              "8">>

TCard == <<"1", "1", "1", "1", "2", "2", "2", "2", "3", "3", "3", "3", "4", "4",
           "4", "4">>

TAddress == <<"1", ".", "2", ".", "3", "4", ".", "5">>

TRepeat == <<"a", "1", "2", "3", "4", "5", " ", "1", "2", "3", "4", "5">>

TName == <<"M", "a", "x", " ", "i", "n", " ", "B", "o", "n", "n">>

TPlain == <<"H", "a", "l", "l", "o", " ", "d", "u">>

MaskTexts == {TKontakt, TCard, TAddress, TRepeat, TOne, TName, TPlain, NoText}

\* longest text for which every span is tried as an entity
MaxSpanText == 11

\* what doc.ents may hold for a text: the entities of the lexicon, or one
\* entity over any span of a short text
EntChoices(text) ==
    {doc_ents(text, 1)}
    \cup (IF Len(text) <= MaxSpanText
          THEN { <<[label_ |-> l, start_char |-> sp[1], end_char |-> sp[2]]>> :
                   l \in {"PER", "ORG"},
                   sp \in {x \in (0..Len(text)) \X (0..Len(text)) : x[1] < x[2]} }
          ELSE {})

MaskInit ==
    /\ pii_service \in { PIIService_init(av, en, lg, sm) :
                           av \in BOOLEAN, en \in BOOLEAN, lg \in BOOLEAN,
                           sm \in BOOLEAN }
    /\ collection = {}
    /\ documents_metadata = EmptyMeta
    /\ metadata_file = [ok |-> TRUE, data |-> EmptyMeta]
    /\ db_documents = {}
    /\ ing = IdleIng
    /\ er = IdleEr
    /\ next_id = 1
    /\ interrupted = 0
    /\ pii = IdlePii
    /\ ct = IdleCt
    /\ wt = IdleWt

\* detect_pii up to the masking walk: the early return of a disabled
\* service, the pattern matches, the call of self.nlp (which may raise) and
\* the sort
DetectFrom(frame, text, mask, ents, recognizer) ==
    LET call == [frame EXCEPT !.text = text, !.mask = mask, !.ents = ents,
                              !.recognizer = recognizer, !.masked_text = text,
                              !.matches = <<>>, !.sorted_matches = <<>>,
                              !.replaced_spans = {}, !.intact = TRUE,
                              !.raised = FALSE, !.spliced = <<>>,
                              !.origin = [i \in 1..Len(text) |-> i]]
    IN  IF ~pii_service.enabled
        THEN [call EXCEPT !.pc = "returned"]
        ELSE IF pii_service.nlp /\ recognizer = "raised"
        THEN [call EXCEPT !.pc = "returned", !.raised = TRUE,
                          !.matches = RegexMatches(text, 1)]
        ELSE LET matches == RegexMatches(text, 1)
                            \o (IF pii_service.nlp THEN EntityMatches(text, ents)
                                ELSE <<>>)
             IN  [call EXCEPT !.pc = "walk", !.matches = matches,
                              !.sorted_matches =
                                  IF mask /\ matches # <<>>
                                  THEN SortByStartDesc(matches, <<>>)
                                  ELSE <<>>]

detect_pii_call(text, mask) ==
    /\ pii.pc = "idle"
    /\ \E ents \in EntChoices(text), recognizer \in {"ok", "raised"} :
         pii' = DetectFrom([pii EXCEPT !.pass = 1], text, mask, ents, recognizer)
    /\ UNCHANGED <<pii_service, system_vars, ct, wt>>

\* the slip of splicing every match, without looking at replaced_spans
Splice_unchecked ==
    /\ pii.pc = "walk"
    /\ pii.sorted_matches # <<>>
    /\ LET match == Head(pii.sorted_matches)
           span_key == <<match.start, match.end>>
       IN  pii' = [pii EXCEPT
                     !.intact = @ /\ (Slice(pii.masked_text, match.start,
                                            match.end) = match.value),
                     !.masked_text = SliceTo(pii.masked_text, match.start)
                                     \o match.masked_value
                                     \o SliceFrom(pii.masked_text, match.end),
                     !.replaced_spans = @ \cup {span_key},
                     !.spliced = Append(@, match),
                     !.origin = SliceTo(@, match.start)
                                \o [k \in 1..Len(match.masked_value) |-> 0]
                                \o SliceFrom(@, match.end),
                     !.sorted_matches = Tail(@)]
    /\ UNCHANGED <<pii_service, system_vars, ct, wt>>

\* one turn of the loop over sorted_matches; spliced records the matches
\* whose masked_value was spliced in, origin for every character of
\* masked_text its position in the text (0: a character of a masked_value)
Splice ==
    /\ pii.pc = "walk"
    /\ pii.sorted_matches # <<>>
    /\ LET match == Head(pii.sorted_matches)
           span_key == <<match.start, match.end>>
       IN  IF span_key \notin pii.replaced_spans
           THEN pii' = [pii EXCEPT
                          !.intact = @ /\ (Slice(pii.masked_text, match.start,
                                                 match.end) = match.value),
                          !.masked_text = SliceTo(pii.masked_text, match.start)
                                          \o match.masked_value
                                          \o SliceFrom(pii.masked_text, match.end),
                          !.replaced_spans = @ \cup {span_key},
                          !.spliced = Append(@, match),
                          !.origin = SliceTo(@, match.start)
                                     \o [k \in 1..Len(match.masked_value) |-> 0]
                                     \o SliceFrom(@, match.end),
                          !.sorted_matches = Tail(@)]
           ELSE pii' = [pii EXCEPT !.sorted_matches = Tail(@)]
    /\ UNCHANGED <<pii_service, system_vars, ct, wt>>

\* return PIIResult(...)
detect_pii_return ==
    /\ pii.pc = "walk"
    /\ pii.sorted_matches = <<>>
    /\ pii' = [pii EXCEPT !.pc = "returned",
                          !.first = IF pii.pass = 1 THEN pii.masked_text ELSE @]
    /\ UNCHANGED <<pii_service, system_vars, ct, wt>>

\* detect_pii(result.masked_text, mask=True) on the result of the first call
detect_pii_again ==
    /\ pii.pc = "returned"
    /\ pii.pass = 1
    /\ pii.mask
    /\ ~pii.raised
    /\ pii' = DetectFrom([pii EXCEPT !.pass = 2,
                                     !.first = pii.masked_text],
                         pii.masked_text, TRUE, doc_ents(pii.masked_text, 1), "ok")
    /\ UNCHANGED <<pii_service, system_vars, ct, wt>>

MaskNext ==
    \/ \E text \in MaskTexts, mask \in BOOLEAN : detect_pii_call(text, mask)
    \/ Splice
    \/ detect_pii_return
    \/ detect_pii_again

MaskSpec == MaskInit /\ [][MaskNext]_vars

(***************************************************************************)
(* DocumentService._chunk_text on its own: a service constructed with a    *)
(* chunk_size and a chunk_overlap, one call followed sentence by sentence. *)
(***************************************************************************)
\* longest text given to _chunk_text
MaxTextLen == 6

\* largest chunk_size and chunk_overlap a service is constructed with
MaxChunkSize == 5

MaxChunkOverlap == 5

\* the characters of the texts: two letters, a sentence end, a space
ChunkAlphabet == {"a", "b", ".", " "}

\* a text whose first sentence ends with a telephone number written in
\* groups
TPhone == <<"0", " ", "1", "2", " ", "3", "4", "5", " ", "6", "7", ".", " ",
            "H", "a", "l", "l", "o", " ", "d", "u", ".">>

\* every text up to MaxTextLen over the alphabet, and the telephone text
ChunkTexts == UNION {[1..n -> ChunkAlphabet] : n \in 0..MaxTextLen} \cup {TPhone}

ChunkInit ==
    /\ pii_service = PIIService_init(FALSE, TRUE, FALSE, FALSE)
    /\ collection = {}
    /\ documents_metadata = EmptyMeta
    /\ metadata_file = [ok |-> TRUE, data |-> EmptyMeta]
    /\ db_documents = {}
    /\ ing = IdleIng
    /\ er = IdleEr
    /\ next_id = 1
    /\ interrupted = 0
    /\ pii = IdlePii
    /\ wt = IdleWt
    /\ \E text \in ChunkTexts, size \in 1..MaxChunkSize, overlap \in 0..MaxChunkOverlap :
         ct = [IdleCt EXCEPT !.pc = "call", !.text = text, !.chunk_size = size,
                             !.chunk_overlap = overlap]

\* normalize whitespace and split into sentences
chunk_text_call ==
    /\ ct.pc = "call"
    /\ ct' = [ct EXCEPT !.pc = "loop",
                        !.sentences = SentencesFrom(join(split(ct.text)), 1, <<>>)]
    /\ UNCHANGED <<pii_service, system_vars, pii, wt>>

\* the slip of walking also when the closed chunk is exactly chunk_overlap long
NextSentence_walks_at_equal ==
    /\ ct.pc = "loop"
    /\ ct.sentences # <<>>
    /\ LET sentence == strip(Head(ct.sentences))
           sentence_length == Len(sentence)
       IN  IF sentence = <<>>
           THEN ct' = [ct EXCEPT !.sentences = Tail(@)]
           ELSE IF ct.current_length + sentence_length > ct.chunk_size
                   /\ ct.current_chunk # <<>>
           THEN LET overlap_text == join(ct.current_chunk)
                    walk == IF Len(overlap_text) >= ct.chunk_overlap
                            THEN OverlapWalk(split(overlap_text), <<>>, 0,
                                             ct.chunk_overlap)
                            ELSE [words |-> <<>>, len |-> 0]
                IN  ct' = [ct EXCEPT !.sentences = Tail(@),
                                     !.chunks = Append(@, overlap_text),
                                     !.carried = Append(@, walk.words),
                                     !.current_chunk = Append(walk.words, sentence),
                                     !.current_length = walk.len + sentence_length + 1]
           ELSE ct' = [ct EXCEPT !.sentences = Tail(@),
                                 !.current_chunk = Append(@, sentence),
                                 !.current_length = @ + sentence_length + 1]
    /\ UNCHANGED <<pii_service, system_vars, pii, wt>>

\* one turn of "for sentence in sentences"; carried records the overlap
\* words each new chunk starts with
NextSentence ==
    /\ ct.pc = "loop"
    /\ ct.sentences # <<>>
    /\ LET sentence == strip(Head(ct.sentences))
           sentence_length == Len(sentence)
       IN  IF sentence = <<>>
           THEN ct' = [ct EXCEPT !.sentences = Tail(@)]
           ELSE IF ct.current_length + sentence_length > ct.chunk_size
                   /\ ct.current_chunk # <<>>
           THEN LET overlap_text == join(ct.current_chunk)
                    walk == IF Len(overlap_text) > ct.chunk_overlap
                            THEN OverlapWalk(split(overlap_text), <<>>, 0,
                                             ct.chunk_overlap)
                            ELSE [words |-> <<>>, len |-> 0]
                IN  ct' = [ct EXCEPT !.sentences = Tail(@),
                                     !.chunks = Append(@, overlap_text),
                                     !.carried = Append(@, walk.words),
                                     !.current_chunk = Append(walk.words, sentence),
                                     !.current_length = walk.len + sentence_length + 1]
           ELSE ct' = [ct EXCEPT !.sentences = Tail(@),
                                 !.current_chunk = Append(@, sentence),
                                 !.current_length = @ + sentence_length + 1]
    /\ UNCHANGED <<pii_service, system_vars, pii, wt>>

\* the slip of appending the chunk being filled without testing it
chunk_text_return_unguarded ==
    /\ ct.pc = "loop"
    /\ ct.sentences = <<>>
    /\ ct' = [ct EXCEPT !.pc = "returned", !.chunks = Append(@, join(ct.current_chunk))]
    /\ UNCHANGED <<pii_service, system_vars, pii, wt>>

\* the flush of the last chunk and the return
chunk_text_return ==
    /\ ct.pc = "loop"
    /\ ct.sentences = <<>>
    /\ ct' = [ct EXCEPT !.pc = "returned",
                        !.chunks = IF ct.current_chunk # <<>>
                                   THEN Append(@, join(ct.current_chunk)) ELSE @]
    /\ UNCHANGED <<pii_service, system_vars, pii, wt>>

ChunkNext ==
    \/ chunk_text_call
    \/ NextSentence
    \/ chunk_text_return

ChunkSpec == ChunkInit /\ [][ChunkNext]_vars

(***************************************************************************)
(* watcher.py: the inbox watcher.  A file is <<stem, suffix>>, the stem a   *)
(* sequence of characters; the directories are sets of file names.  The    *)
(* upload, the moves and the writing of the log are calls into the network *)
(* and the file system, each with the outcomes the handler provides for.   *)
(***************************************************************************)
\* files that arrive in the inbox while the watcher runs
MaxArrivals == 2

SUPPORTED_FORMATS == {".pdf", ".docx", ".doc", ".txt", ".xlsx", ".png", ".jpg"}

WatchFiles == { <<<<"a">>, ".txt">>, <<<<"b">>, ".pdf">>, <<<<"c">>, ".exe">>,
                <<<<".", "d">>, ".txt">> }

\* dest = dir / filename, or dir / f"{stem}_{ts}{suffix}" if that name exists
Dest(dir, filepath) ==
    IF filepath \in dir THEN <<filepath[1], "_ts", filepath[2]>> ELSE filepath

\* a file is created in the inbox and the observer calls on_created
file_created(filepath) ==
    /\ wt.pc = "idle"
    /\ wt.arrivals < MaxArrivals
    /\ filepath \notin wt.inbox
    /\ wt' = [wt EXCEPT !.pc = "on_created", !.filepath = filepath,
                        !.inbox = @ \cup {filepath}, !.arrivals = @ + 1,
                        !.response = 0, !.error_msg = "", !.place = "inbox",
                        !.log_written = FALSE]
    /\ UNCHANGED <<pii_service, system_vars, pii, ct>>

\* on_created: hidden, temporary and unsupported files are ignored
on_created ==
    /\ wt.pc = "on_created"
    /\ LET name == wt.filepath[1]
           ext == wt.filepath[2]
       IN  IF name[1] \in {".", "~"} \/ ext \notin SUPPORTED_FORMATS
           THEN wt' = [wt EXCEPT !.pc = "idle", !.place = "ignored"]
           ELSE wt' = [wt EXCEPT !.pc = "stable"]
    /\ UNCHANGED <<pii_service, system_vars, pii, ct>>

\* _process_file step 1: _wait_for_stable_size returns True, or False when
\* the file was removed meanwhile
wait_for_stable_size ==
    /\ wt.pc = "stable"
    /\ \E stable \in BOOLEAN :
         IF stable THEN wt' = [wt EXCEPT !.pc = "upload"]
         ELSE wt' = [wt EXCEPT !.pc = "done", !.inbox = @ \ {wt.filepath},
                               !.place = "vanished"]
    /\ UNCHANGED <<pii_service, system_vars, pii, ct>>

\* what httpx.post does: a response with a status code, or an exception
UploadOutcomes ==
    {[exc |-> "none", status_code |-> c] : c \in {200, 400, 500}}
    \cup {[exc |-> e, status_code |-> 0] :
            e \in {"TimeoutException", "ConnectError", "Exception"}}

\* _process_file steps 2 and 3: open, httpx.post, the status code and the
\* three handlers
upload ==
    /\ wt.pc = "upload"
    /\ \E outcome \in UploadOutcomes :
         wt' = [wt EXCEPT
                  !.response = outcome.status_code,
                  !.pc = IF outcome.status_code = 200 THEN "move_processed"
                         ELSE "move_to_error",
                  !.error_msg = CASE outcome.status_code = 200 -> ""
                                  [] outcome.exc = "none" -> "HTTP"
                                  [] outcome.exc = "TimeoutException" -> "Upload-Timeout"
                                  [] outcome.exc = "ConnectError" -> "Backend nicht erreichbar"
                                  [] OTHER -> "Unerwarteter Fehler"]
    /\ UNCHANGED <<pii_service, system_vars, pii, ct>>

\* status 200: shutil.move into processed/; a move that raises is caught by
\* "except Exception" and the file goes the error way
move_processed ==
    /\ wt.pc = "move_processed"
    /\ \E moved \in BOOLEAN :
         IF moved
         THEN wt' = [wt EXCEPT !.pc = "done", !.inbox = @ \ {wt.filepath},
                               !.processed = @ \cup {Dest(wt.processed, wt.filepath)},
                               !.place = "processed"]
         ELSE wt' = [wt EXCEPT !.pc = "move_to_error",
                               !.error_msg = "Unerwarteter Fehler"]
    /\ UNCHANGED <<pii_service, system_vars, pii, ct>>

\* _move_to_error: shutil.move into error/ and _write_error_log; a move that
\* raises and a log that cannot be written are logged and swallowed
move_to_error ==
    /\ wt.pc = "move_to_error"
    /\ \E moved \in BOOLEAN, logged \in BOOLEAN :
         LET dest == Dest(wt.error, wt.filepath)
         IN  IF moved
             THEN wt' = [wt EXCEPT !.pc = "done", !.inbox = @ \ {wt.filepath},
                                   !.error = @ \cup {dest},
                                   !.logs = IF logged THEN @ \cup {dest} ELSE @,
                                   !.log_written = logged,
                                   !.place = "error"]
             ELSE /\ ~logged
                  /\ wt' = [wt EXCEPT !.pc = "done"]
    /\ UNCHANGED <<pii_service, system_vars, pii, ct>>

\* _process_file returns to the observer
process_file_return ==
    /\ wt.pc = "done"
    /\ wt' = [wt EXCEPT !.pc = "idle"]
    /\ UNCHANGED <<pii_service, system_vars, pii, ct>>

WatchInit ==
    /\ pii_service = PIIService_init(FALSE, TRUE, FALSE, FALSE)
    /\ collection = {}
    /\ documents_metadata = EmptyMeta
    /\ metadata_file = [ok |-> TRUE, data |-> EmptyMeta]
    /\ db_documents = {}
    /\ ing = IdleIng
    /\ er = IdleEr
    /\ next_id = 1
    /\ interrupted = 0
    /\ pii = IdlePii
    /\ ct = IdleCt
    /\ wt = IdleWt

WatchNext ==
    \/ \E filepath \in WatchFiles : file_created(filepath)
    \/ on_created
    \/ wait_for_stable_size
    \/ upload
    \/ move_processed
    \/ move_to_error
    \/ process_file_return

WatchSpec == WatchInit /\ [][WatchNext]_vars

(***************************************************************************)
(* Properties.                                                             *)
(***************************************************************************)
NoChunks(document_id) == ChunksOf(collection, document_id) = {}

\* every chunk the texts of Files and CliFile are cut into
KnownChunks ==
    LET Range(q) == {q[i] : i \in 1..Len(q)}
    IN  UNION {Range(chunk_text(f.text, chunk_size, chunk_overlap)) : f \in Files}
        \cup Range(cli_chunk_text(CliFile.text, CLI_CHUNK_SIZE, CLI_OVERLAP))

\* detect_pii(chunk, mask=True).masked_text of every known chunk, with and
\* without the recognizer
masked_text_of ==
    [nlp \in BOOLEAN |->
       [chunk \in KnownChunks |->
          detect_pii([enabled |-> TRUE, nlp |-> nlp], chunk, TRUE).masked_text]]

\* the ids list_documents returns
Listed == DOMAIN documents_metadata

\* process_document has returned normally for the upload in ing
Ingested == ing.id \in DocIds /\ ing.pc \in {"respond", "done"}
            /\ ing.failed \in {"none", "respond"}

\* process_document or the endpoint has raised for the upload in ing
IngestionFailed == ing.pc = "done" /\ ing.status # 200

\* delete_document has returned
ErReturned == er.pc \in {"respond", "done"}

\* C1: in every process_document call the i-th text passed to the embedding
\* capability is the masked_text detect_pii(chunk, mask=True) returned for
\* the i-th chunk, the index receives that same text and the vector made of
\* it, and a chunk that masking changed is never passed in its original form
C1_EmbeddingGetsMaskedText ==
    /\ \A i \in 1..Len(ing.embed_calls) :
         LET masked_text == masked_text_of[pii_service.nlp][ing.chunks[i]]
         IN  /\ ing.embed_calls[i] = masked_text
             /\ masked_text # ing.chunks[i] => ing.embed_calls[i] # ing.chunks[i]
    /\ \A e \in collection :
         e.document_id \in DocIds =>
           /\ e.document = masked_text_of[pii_service.nlp][e.raw]
           /\ e.embedding = e.document

\* C1 witness: an ingestion answered 200 whose chunks were changed by masking
\* and embedded, with its entries in the index
C1_Witness ==
    /\ ing.pc = "done" /\ ing.status = 200
    /\ \E i \in 1..Len(ing.embed_calls) : ing.embed_calls[i] # ing.chunks[i]
    /\ ~NoChunks(ing.id)

\* C2: at every point, also after an ingestion was abandoned by a stop of the
\* process, every chunk of a document in the index has a metadata record (a
\* chunk whose ingestion is still between upsert and commit is not counted)
C2_NoChunkWithoutRecord ==
    \A e \in collection :
        e.document_id \in DocIds =>
          \/ e.document_id \in DOMAIN documents_metadata
          \/ (ing.id = e.document_id /\ ing.pc = "commit")

\* C3: erase returns True only when the chunks and the metadata record are
\* both gone; when the index deletion failed it does not return True and the
\* record is still there
C3_EraseReportsPartialFailure ==
    ErReturned =>
      /\ er.result => NoChunks(er.id) /\ er.id \notin DOMAIN documents_metadata
      /\ er.index = "raised" => ~er.result /\ er.id \in DOMAIN documents_metadata

\* C4: once an erase request for an ingested document has succeeded, through
\* the backend (answer 200) or through the dashboard's delete button (row
\* removed), the index, the backend metadata and the dashboard table are all
\* free of the document
C4_EraseClearsEveryStore ==
    /\ [](er.pc = "done" /\ er.status = 200 =>
            /\ NoChunks(er.id)
            /\ er.id \notin DOMAIN documents_metadata
            /\ er.id \notin db_documents)
    /\ [][\A d \in db_documents \ db_documents' :
            /\ ChunksOf(collection', d) = {}
            /\ d \notin DOMAIN documents_metadata']_vars

\* C5: every entry of the index holds, and was embedded from, the output of
\* the masking pass over the text it was made from
C5_OnlyMaskedTextStored ==
    \A e \in collection :
        /\ e.document = masked_text_of[pii_service.nlp][e.raw]
        /\ e.embedding = e.document

\* C6: an ingestion that failed at extraction, embedding or upsert is
\* answered with an error and has no metadata record, in memory or on file;
\* when it failed before the upsert no index call was made and the index has
\* nothing of it
C6_FailureWritesNoRecord ==
    ing.pc = "done" /\ ing.failed \in {"extract", "embed", "index"} =>
      /\ ing.status # 200
      /\ ing.id \notin Listed
      /\ ing.id \notin DOMAIN load_metadata(metadata_file)
      /\ ing.failed \in {"extract", "embed"} => ing.index_calls = 0 /\ NoChunks(ing.id)

\* C6 witness: an ingestion whose chunks were embedded and whose upsert failed
C6_Witness ==
    /\ ing.pc = "done" /\ ing.failed = "index"
    /\ ing.embed_calls # <<>>
    /\ ing.index_calls = 1

\* C7: whenever an ingestion is answered with a failure, its document is
\* neither in the metadata store nor in the index
C7_FailureLeavesNothingVisible ==
    IngestionFailed /\ ing.id \in DocIds =>
      ing.id \notin Listed /\ NoChunks(ing.id)

\* C8: erase returns false exactly when the index held no chunk of the id at
\* the call; otherwise the chunks and the record are deleted and it returns
\* true
C8_EraseDecidedByIndex ==
    ErReturned =>
      /\ ~er.result <=> ~er.had_chunks
      /\ er.result => NoChunks(er.id) /\ er.id \notin DOMAIN documents_metadata

\* C9: for a successfully ingested document the first erase returns True and
\* leaves neither chunks nor record; an erase that directly follows it on the
\* same id returns False at once and changes no store
C9_EraseTwice ==
    /\ [](ErReturned /\ Ingested /\ er.id = ing.id /\ er.had_record =>
            /\ er.result
            /\ NoChunks(er.id)
            /\ er.id \notin DOMAIN documents_metadata)
    /\ [][er' # er /\ er'.prev_true =>
            /\ er'.pc = "done" /\ ~er'.result
            /\ UNCHANGED <<collection, documents_metadata, metadata_file,
                           db_documents>>]_vars

PiiReturned == pii.pc = "returned" /\ ~pii.raised /\ pii.mask

\* C11: masking the masked text again returns it unchanged
C11_MaskingIdempotent ==
    PiiReturned /\ pii.pass = 2 => pii.masked_text = pii.first

\* C12: whenever the walk splices a candidate, the working text still holds
\* the candidate's matched value at [start, end)
C12_SpliceFindsMatchedValue == pii.intact

\* sub occurs in text
Contains(text, sub) ==
    \E i \in 0..(Len(text) - Len(sub)) : Slice(text, i, i + Len(sub)) = sub

\* C13: the masked text of a chunk, which is the text process_document passes
\* to the embedding capability, contains the value of no match recorded in
\* the chunk's PIIResult
C13_NoMatchValueInEmbeddedText ==
    PiiReturned /\ pii.pass = 1 =>
      \A i \in 1..Len(pii.matches) : ~Contains(pii.masked_text, pii.matches[i].value)

\* no two candidate matches share a character position or a span
PairwiseDisjoint(matches) ==
    \A i, j \in 1..Len(matches) :
        i # j => matches[i].end <= matches[j].start \/ matches[j].end <= matches[i].start

\* the text from pos on, read left to right, each matched span replaced by
\* its token and every other character copied
RECURSIVE Replaced(_, _, _)
Replaced(text, matches, pos) ==
    IF pos >= Len(text) THEN <<>>
    ELSE IF \E i \in 1..Len(matches) : matches[i].start = pos
    THEN LET m == matches[CHOOSE i \in 1..Len(matches) : matches[i].start = pos]
         IN  m.masked_value \o Replaced(text, matches, m.end)
    ELSE <<text[pos + 1]>> \o Replaced(text, matches, pos + 1)

\* C14: when the candidate matches of a text are pairwise disjoint, detect_pii
\* with mask=True reports pii_detected and returns the text with each matched
\* span replaced by its token and nothing else changed
C14_DisjointSpansReplacedInPlace ==
    PiiReturned /\ pii.pass = 1 /\ pii.matches # <<>> /\ PairwiseDisjoint(pii.matches) =>
      LET result == detect_pii_ents(pii_service.enabled, pii_service.nlp, pii.ents,
                                    pii.text, TRUE)
      IN  /\ result.pii_detected
          /\ result.matches = pii.matches
          /\ result.masked_text = Replaced(pii.text, pii.matches, 0)
          /\ pii.masked_text = result.masked_text

\* C14 witness: the sample 'Kontakt: max@firma.de, Tel: 030 12345678' has
\* come back as 'Kontakt: [EMAIL], Tel: [TELEFON]'
C14_Witness ==
    /\ PiiReturned /\ pii.pass = 1
    /\ pii.text = TKontakt
    /\ Len(pii.matches) = 2 /\ PairwiseDisjoint(pii.matches)
    /\ pii.masked_text = SliceTo(TKontakt, 9) \o MASK_PATTERNS("email")
                         \o <<",", " ", "T", "e", "l", ":", " ">>
                         \o MASK_PATTERNS("phone_de")

\* C15: with the recognizer unavailable (not loaded, or raising when it is
\* called) detect_pii does not raise and returns every pattern match and the
\* masked text built from them
C15_RecognizerUnavailableDegrades ==
    pii.pc = "returned" /\ pii.pass = 1 /\ pii_service.enabled
    /\ (~pii_service.nlp \/ pii.recognizer = "raised") =>
      /\ ~pii.raised
      /\ pii.matches = RegexMatches(pii.text, 1)
      /\ pii.mask => pii.masked_text =
                       detect_pii_ents(TRUE, FALSE, <<>>, pii.text, TRUE).masked_text

\* C16: when process_document returns for an ingestion of n chunks, the index
\* entries with the new document_id are exactly those with the ids
\* '{document_id}_chunk_0' .. '{document_id}_chunk_{n-1}', entry i holds
\* chunk_index i and the i-th masked chunk, and the metadata record has
\* chunk_count = n
C16_EntriesAndChunkCount ==
    ing.pc = "respond" =>
      LET n == Len(ing.chunks)
          entries == ChunksOf(collection, ing.id)
      IN  /\ {e.id : e \in entries} = {chunk_id(ing.id, i) : i \in 0..(n - 1)}
          /\ Cardinality(entries) = n
          /\ \A e \in entries :
               /\ e.id = chunk_id(ing.id, e.chunk_index)
               /\ e.document = ing.masked_chunks[e.chunk_index + 1]
          /\ ing.id \in DOMAIN documents_metadata
          /\ documents_metadata[ing.id].chunk_count = n

\* C16 witness: process_document has returned for a text of two chunks
C16_Witness ==
    /\ ing.pc = "respond"
    /\ Len(ing.chunks) = 2
    /\ Cardinality(ChunksOf(collection, ing.id)) = 2

\* the stages of process_document in their order
StageOrder == <<"extract", "chunk", "mask", "embed", "index", "commit">>

\* C17: the stages of one process_document call begin in the order extract,
\* chunk, mask, embed, index, commit, each at most once; embedding begins
\* with every chunk masked and the upsert with every masked chunk embedded; a
\* call that returned has performed all six; after a failed stage none follows
C17_StagesInOrder ==
    /\ Len(ing.stages) <= Len(StageOrder)
    /\ \A i \in 1..Len(ing.stages) : ing.stages[i] = StageOrder[i]
    /\ Len(ing.stages) >= 4 => Len(ing.masked_chunks) = Len(ing.chunks)
    /\ Len(ing.stages) >= 5 => Len(ing.embed_calls) = Len(ing.masked_chunks)
    /\ Ingested => ing.stages = StageOrder
    /\ ing.failed \in {"extract", "mask", "embed", "index"} =>
         /\ ing.pc = "done"
         /\ ing.stages[Len(ing.stages)] = ing.failed

\* C17 witness: a call over two chunks has returned
C17_Witness ==
    /\ Ingested /\ ing.pc = "respond"
    /\ ing.stages = StageOrder
    /\ Len(ing.embed_calls) = 2

\* C18: the embedding model is called with the masked chunks in their order,
\* each at most once; when the batch has returned there is one vector per
\* masked chunk and entry i stores the vector of masked chunk i; extraction
\* and upsert are called at most once per ingestion
C18_OneCallPerChunkInOrder ==
    /\ Len(ing.embed_calls) <= Len(ing.masked_chunks)
    /\ \A i \in 1..Len(ing.embed_calls) : ing.embed_calls[i] = ing.masked_chunks[i]
    /\ ing.pc \in {"index", "commit", "audit", "respond"} =>
         Len(ing.embed_calls) = Len(ing.masked_chunks)
    /\ ing.pc \in {"commit", "audit", "respond"} =>
         \A e \in ChunksOf(collection, ing.id) :
             e.embedding = ing.masked_chunks[e.chunk_index + 1]
    /\ ing.index_calls <= 1
    /\ Cardinality({i \in 1..Len(ing.stages) : ing.stages[i] = "extract"}) <= 1

\* C18 witness: an ingestion of two chunks failed at its second embedding
\* call and made no further call
C18_Witness ==
    /\ ing.pc = "done" /\ ing.failed = "embed"
    /\ Len(ing.embed_calls) = 2
    /\ ing.index_calls = 0

\* the non-empty sentences the splitter produces for a text
SentencesOf(text) ==
    LET all == SentencesFrom(join(split(text)), 1, <<>>)
    IN  SelectSeq([i \in 1..Len(all) |-> strip(all[i])], LAMBDA x : x # <<>>)

\* the word lists that end a chunk, the empty list included
WordSuffixes(chunk) ==
    LET words == split(chunk)
    IN  {SubSeq(words, j, Len(words)) : j \in 1..(Len(words) + 1)}

\* chunks i.. consist of an overlap prefix taken from the end of the chunk
\* before and, as new content, of one or more whole sentences, together the
\* sentences after the k-th in their order
RECURSIVE PlacedWhole(_, _, _, _)
PlacedWhole(chunks, i, sentences, k) ==
    IF i > Len(chunks) THEN k = Len(sentences)
    ELSE \E m \in 1..(Len(sentences) - k) :
           /\ \E prefix \in (IF i = 1 THEN {<<>>} ELSE WordSuffixes(chunks[i - 1])) :
                chunks[i] = join(prefix \o SubSeq(sentences, k + 1, k + m))
           /\ PlacedWhole(chunks, i + 1, sentences, k + m)

\* C19: the chunks _chunk_text returns hold every sentence of the splitter
\* whole, as new content of exactly one chunk, in the original order, behind
\* the overlap prefixes; a sentence longer than chunk_size too
C19_SentencesWholeAndInOrder ==
    ct.pc = "returned" =>
      /\ ct.chunks = chunk_text(ct.text, ct.chunk_size, ct.chunk_overlap)
      /\ PlacedWhole(ct.chunks, 1, SentencesOf(ct.text), 0)

\* C19 witness: three sentences, the first longer than chunk_size, in three
\* chunks
C19_Witness ==
    /\ ct.pc = "returned"
    /\ Len(SentencesOf(ct.text)) = 3
    /\ Len(ct.chunks) = 3
    /\ Len(SentencesOf(ct.text)[1]) > ct.chunk_size

\* C20: the words carried from chunk i into chunk i+1 are the last words of
\* chunk i, chunk i+1 starts with them, and joined they are no longer than
\* chunk_overlap
C20_OverlapBounded ==
    ct.pc = "returned" =>
      /\ ct.chunks = chunk_text(ct.text, ct.chunk_size, ct.chunk_overlap)
      /\ \A i \in 1..Len(ct.carried) :
           LET overlap_text == join(ct.carried[i])
           IN  /\ i + 1 <= Len(ct.chunks)
               /\ ct.carried[i] \in WordSuffixes(ct.chunks[i])
               /\ SliceTo(ct.chunks[i + 1], Len(overlap_text)) = overlap_text
               /\ Len(overlap_text) <= ct.chunk_overlap

\* C20 witness: a chunk of two words has handed its last word to the next
C20_Witness ==
    /\ ct.pc = "returned"
    /\ Len(ct.chunks) >= 2
    /\ Len(split(ct.chunks[1])) = 2
    /\ Len(ct.carried[1]) = 1

\* C21: no chunk _chunk_text returns is empty, every chunk holds more words
\* than the overlap words it started with, and an empty text gives no chunk
C21_NoEmptyChunk ==
    ct.pc = "returned" =>
      /\ \A i \in 1..Len(ct.chunks) :
           /\ ct.chunks[i] # <<>>
           /\ Len(split(ct.chunks[i])) >
                 (IF i = 1 THEN 0 ELSE Len(ct.carried[i - 1]))
      /\ Len(ct.carried) = Max(Len(ct.chunks) - 1, 0)
      /\ ct.text = <<>> => ct.chunks = <<>>

\* C21 witness: a second chunk that started with a carried word
C21_Witness ==
    /\ ct.pc = "returned"
    /\ Len(ct.chunks) >= 2
    /\ ct.carried[1] # <<>>
    /\ Len(split(ct.chunks[2])) = Len(ct.carried[1]) + 1

\* the longest list of last words of a chunk that, joined, is shorter than
\* overlap (the empty list when no word fits)
LongestSuffixUnder(chunk, overlap) ==
    LET fit == {w \in WordSuffixes(chunk) : w = <<>> \/ Len(join(w)) < overlap}
    IN  CHOOSE w \in fit : \A v \in fit : Len(v) <= Len(w)

\* C22 as stated: a closed chunk shorter than chunk_overlap hands nothing to
\* the next chunk, every other closed chunk hands over its longest list of
\* last words that stays under chunk_overlap
C22_SeedWhenNotShorter ==
    ct.pc = "returned" =>
      \A i \in 1..Len(ct.carried) :
        ct.carried[i] = IF Len(ct.chunks[i]) < ct.chunk_overlap THEN <<>>
                        ELSE LongestSuffixUnder(ct.chunks[i], ct.chunk_overlap)

\* C22 amended: a closed chunk no longer than chunk_overlap hands nothing to
\* the next chunk, a longer one hands over its longest list of last words
\* that stays under chunk_overlap
C22_SeedWhenLonger ==
    ct.pc = "returned" =>
      \A i \in 1..Len(ct.carried) :
        ct.carried[i] = IF Len(ct.chunks[i]) <= ct.chunk_overlap THEN <<>>
                        ELSE LongestSuffixUnder(ct.chunks[i], ct.chunk_overlap)

\* C22 witness: a closed chunk of two words, exactly chunk_overlap long, has
\* handed nothing over
C22_Witness ==
    /\ ct.pc = "returned"
    /\ Len(ct.chunks) >= 2
    /\ Len(ct.chunks[1]) = ct.chunk_overlap
    /\ Len(split(ct.chunks[1])) = 2
    /\ ct.carried[1] = <<>>

\* the masking walk of the call is over
Walked == pii.pc = "returned" /\ pii.mask /\ pii_service.enabled /\ ~pii.raised

\* the first match of the detection order with the span of m
FirstWithSpan(matches, m) ==
    matches[CHOOSE i \in 1..Len(matches) :
              /\ matches[i].start = m.start /\ matches[i].end = m.end
              /\ \A j \in 1..(i - 1) :
                    matches[j].start # m.start \/ matches[j].end # m.end]

\* C23: for every span some match has, different or not from the spans
\* around it, exactly one splice is made, with the masked_value of the first
\* match of the detection order that has this span
C23_OneSplicePerExactSpan ==
    Walked =>
      /\ \A i \in 1..Len(pii.matches) :
           LET m == pii.matches[i]
               at == {k \in 1..Len(pii.spliced) :
                        /\ pii.spliced[k].start = m.start
                        /\ pii.spliced[k].end = m.end}
           IN  /\ Cardinality(at) = 1
               /\ \A k \in at : pii.spliced[k] = FirstWithSpan(pii.matches, m)
      /\ \A k \in 1..Len(pii.spliced) :
           \E i \in 1..Len(pii.matches) : pii.matches[i] = pii.spliced[k]

\* C23 witness: two matches of different type on one span, spliced once, and
\* a third match that overlaps them, spliced too
C23_Witness ==
    /\ Walked
    /\ Len(pii.spliced) = 2
    /\ \E i, j, k \in 1..Len(pii.matches) :
         /\ i < j
         /\ pii.matches[i].start = pii.matches[j].start
         /\ pii.matches[i].end = pii.matches[j].end
         /\ pii.matches[i].type # pii.matches[j].type
         /\ pii.matches[k].end # pii.matches[i].end
         /\ pii.matches[k].start < pii.matches[i].end
         /\ pii.matches[i].start < pii.matches[k].end

\* the labels under which the recognizer reports a person
PersonLabels == {"PER", "PERSON"}

\* the types of the closed set: the pattern table and the accepted labels
KnownTypes ==
    {PATTERNS[n].type : n \in 1..Len(PATTERNS)} \cup {"PER", "PERSON", "ORG", "LOC", "GPE"}

\* C24: every match carries the fixed token of its type: a pattern type its
\* own label, a person [PERSON], an organization [ORGANISATION], a location
\* [ORT]; [REDACTED] stands for no type of this closed set
C24_FixedTokenPerType ==
    pii.pc \in {"walk", "returned"} =>
      \A i \in 1..Len(pii.matches) :
        LET m == pii.matches[i]
        IN  /\ m.type \in PersonLabels =>
                  m.masked_value = <<"[", "P", "E", "R", "S", "O", "N", "]">>
            /\ m.type = "ORG" => m.masked_value = MASK_PATTERNS("ORG")
            /\ m.type \in {"LOC", "GPE"} => m.masked_value = <<"[", "O", "R", "T", "]">>
            /\ m.type \notin PersonLabels => m.masked_value = MASK_PATTERNS(m.type)
            /\ m.type \in KnownTypes => m.masked_value # REDACTED

\* C25: when the handler is through with a file that did not vanish under
\* it, it has not raised, the file is in processed/ exactly if the upload
\* answered 200 and otherwise in error/ with its .log, and it is no longer in
\* the inbox
C25_FileEndsInOnePlace ==
    wt.pc = "done" /\ wt.place # "vanished" =>
      /\ ~wt.raised
      /\ wt.filepath \notin wt.inbox
      /\ wt.place = "processed" <=> wt.response = 200
      /\ wt.place # "processed" => wt.place = "error" /\ wt.log_written

\* the positions (from 1) of the text that lie inside the span of a match
Covered(matches) ==
    {n \in 1..Len(pii.text) :
       \E i \in 1..Len(matches) : matches[i].start < n /\ n <= matches[i].end}

\* C26: in the masked_text of a masking call no character of the text from
\* inside a detected span is left, and the characters outside every span are
\* all there, unaltered and in their order, whether spans overlap or not
C26_InsideGoneOutsideKept ==
    Walked =>
      LET kept == SelectSeq(pii.origin, LAMBDA n : n # 0)
      IN  /\ \A k \in 1..Len(kept) : kept[k] \notin Covered(pii.matches)
          /\ \A n \in 1..Len(pii.text) :
                n \notin Covered(pii.matches) => \E k \in 1..Len(kept) : kept[k] = n
          /\ \A k \in 1..(Len(kept) - 1) : kept[k] < kept[k + 1]
          /\ \A i \in 1..Len(pii.origin) :
                pii.origin[i] # 0 => pii.masked_text[i] = pii.text[pii.origin[i]]

\* the offset in a closed chunk at which the words handed to the next chunk
\* begin
SeedOffset(chunk, carried) == Len(chunk) - Len(join(carried))

\* C27: of a value detect_pii finds in chunk i the words handed over to chunk
\* i+1 hold all or nothing, so that chunk i+1 begins with no piece of a value
\* that was masked in chunk i
C27_SeedKeepsValuesWhole ==
    ct.pc = "returned" /\ ct.text = TPhone =>
      \A i \in 1..Len(ct.carried) :
        LET matches == detect_pii(pii_service, ct.chunks[i], TRUE).matches
            cut == SeedOffset(ct.chunks[i], ct.carried[i])
        IN  \A k \in 1..Len(matches) :
              ~(matches[k].start < cut /\ cut < matches[k].end)

\* C28: of two erase calls for a committed document of which the second was
\* requested while the first ran, the first returned True and the second
\* returns False and is answered 404, and then the document has neither
\* chunks in the index nor a record
C28_OverlappingEraseOnce ==
    er.pc = "done" /\ er.overlaps =>
      /\ er.prev_true
      /\ ~er.result
      /\ er.status = 404
      /\ NoChunks(er.id)
      /\ er.id \notin DOMAIN documents_metadata

\* C29: when process_document has returned normally, documents.json holds
\* the record of the document, so that _load_metadata finds it after a
\* restart; no document has chunks in the index and a record in memory only
C29_ReturnedMeansDurable ==
    /\ ing.id \in DocIds /\ ing.pc = "respond" =>
          /\ ing.id \in DOMAIN load_metadata(metadata_file)
          /\ load_metadata(metadata_file)[ing.id] = DocumentRecord(ing)
    /\ \A d \in DocIds :
          d \in DOMAIN documents_metadata /\ ~NoChunks(d) =>
            d \in DOMAIN load_metadata(metadata_file)

====
